---- MODULE Spec2Model ----
(***************************************************************************)
(* Plant watering tracker: the storage layer and REST handlers of          *)
(* src/backend/src/db.js and the client classifiers isDueNow / dueLabel of *)
(* src/unnamed/part_000.                                                   *)
(*                                                                         *)
(* An instant is a pair <<d, m>>: d whole days since 1970-01-01 UTC and m  *)
(* milliseconds within that day (0 .. msPerDay-1).  The pair is the        *)
(* millisecond count d * msPerDay + m written in mixed radix, so that the  *)
(* calendar limits of SQLite (year 9999) and of the JavaScript Date        *)
(* (+-100,000,000 days) stay inside 32-bit integers.  NaN (an Invalid     *)
(* Date) is the empty tuple.                                               *)
(***************************************************************************)
EXTENDS Integers, Sequences, FiniteSets, TLC

VARIABLES
    db,     \* rows of table plants (in-memory sql.js database)
    seq,    \* AUTOINCREMENT counter of the table (sqlite_sequence)
    file,   \* rows last exported to the database file by persistDatabase
    now,    \* the host clock, read by datetime('now'), CURRENT_TIMESTAMP, Date.now()
    tz,     \* the time zone of the server process (read by getDate / setDate)
    res,    \* the outcome of the last call: what the handler or function returned
    tasks   \* the event loop: databasePromise, suspended calls, file writes under way

vars == <<db, seq, file, now, tz, res, tasks>>

----------------------------------------------------------------------------
(* Bounds of the model *)

\* ids the table may hand out (number of successful inserts in one behaviour)
MaxId == 2

\* requests the server may have in flight together
MaxReq == 2

\* day number of the first instant used by the model (2024-10-04)
BaseDay == 20000

----------------------------------------------------------------------------
(* Calendar constants *)

msPerSecond == 1000
msPerHour   == 1000 * 60 * 60
msPerDay    == 1000 * 60 * 60 * 24

\* 0000-01-01 and 9999-12-31 as day numbers: the years SQLite's date parser
\* and datetime() accept, and the years toISOString writes with four digits
MinSqlDay == 0 - 719528
MaxSqlDay == 2932896

\* the range of a JavaScript Date: +-8.64e15 ms = +-100,000,000 days
MaxJsDay == 100000000

NaN == <<>>
IsNaN(t) == t = <<>>

Norm(d, m) == <<d + (m \div msPerDay), m % msPerDay>>
AddMs(t, k) == Norm(t[1], t[2] + k)
AddDays(t, n) == <<t[1] + n, t[2]>>
Leq(a, b) == a[1] < b[1] \/ (a[1] = b[1] /\ a[2] <= b[2])
Lt(a, b) == a[1] < b[1] \/ (a[1] = b[1] /\ a[2] < b[2])
TruncSec(t) == <<t[1], (t[2] \div msPerSecond) * msPerSecond>>

\* TimeClip: a time value outside the Date range is NaN
TimeClip(t) ==
    IF Leq(<<0 - MaxJsDay, 0>>, t) /\ Leq(t, <<MaxJsDay, 0>>) THEN t ELSE NaN

----------------------------------------------------------------------------
(* Text of a timestamp column or JSON field.                               *)
(*   k = "null"  : SQL NULL / JSON null                                    *)
(*   k = "iso"   : the text toISOString writes for instant <<d, m>>        *)
(*                 (YYYY-MM-DDTHH:MM:SS.sssZ, or +-YYYYYY-.. outside       *)
(*                 years 0000..9999)                                       *)
(*   k = "empty" : the empty string                                        *)
(*   k = "junk"  : a string no date parser accepts ("soon")                *)
(*   k = "now"   : the string "now", which only SQLite's parser accepts    *)

Null == [k |-> "null", d |-> 0, m |-> 0]
Iso(t) == [k |-> "iso", d |-> t[1], m |-> t[2]]
EmptyText == [k |-> "empty", d |-> 0, m |-> 0]
JunkText == [k |-> "junk", d |-> 0, m |-> 0]
NowText == [k |-> "now", d |-> 0, m |-> 0]
RangeError == [k |-> "RangeError", d |-> 0, m |-> 0]

\* new Date(text).getTime()
DateParse(text) ==
    IF text.k = "iso" THEN TimeClip(<<text.d, text.m>>) ELSE NaN

\* Date.prototype.toISOString: throws RangeError on an Invalid Date
toISOString(t) == IF IsNaN(t) THEN RangeError ELSE Iso(t)

\* !value for a string-or-null value
Falsy(text) == text.k \in {"null", "empty"}

----------------------------------------------------------------------------
(* The server's time zone.  "utc" has no offset; "dst" is one hour ahead   *)
(* of UTC from DstBegin up to DstEnd (a summer-time period).               *)

HostZones == {"utc", "dst"}
DstBegin == <<BaseDay - 100, msPerHour>>
DstEnd == <<BaseDay + 3, msPerHour>>

\* offset of local time from UTC at UTC instant t
LocalOffset(zone, t) ==
    IF zone = "dst" /\ Leq(DstBegin, t) /\ Lt(t, DstEnd) THEN msPerHour ELSE 0

LocalTime(zone, t) == AddMs(t, LocalOffset(zone, t))

\* UTC(w) of ECMAScript: the instant whose local wall-clock reading is w; a
\* repeated or skipped reading is interpreted with the offset in force
\* before the transition
UTC(zone, w) ==
    LET asStd == w
        asDst == AddMs(w, 0 - msPerHour)
        stdOk == LocalOffset(zone, asStd) = 0
        dstOk == LocalOffset(zone, asDst) = msPerHour
    IN  IF dstOk /\ ~stdOk THEN asDst
        ELSE IF stdOk /\ ~dstOk THEN asStd
        ELSE IF stdOk /\ dstOk THEN asDst   \* repeated hour: summer time came first
        ELSE asStd                          \* skipped hour: standard time came first

\* last.setDate(last.getDate() + n): n days later on the local calendar
setDatePlus(zone, t, n) == TimeClip(UTC(zone, AddDays(LocalTime(zone, t), n)))

----------------------------------------------------------------------------
(* SQLite date functions and three-valued logic                            *)

\* the instant SQLite's date parser reads from a text, or NaN when it
\* reads none (datetime() then yields NULL): four-digit years only
SqlDateParse(text, clock) ==
    IF text.k = "now" THEN clock
    ELSE IF text.k = "iso" /\ MinSqlDay <= text.d /\ text.d <= MaxSqlDay
         THEN <<text.d, text.m>>
    ELSE NaN

\* datetime(text, '+' || n || ' days'): 'YYYY-MM-DD HH:MM:SS' (whole seconds,
\* the fraction is dropped), or NULL (NaN here) when the text does not parse
\* or the result leaves years 0000..9999
SqlDatetime(text, n, clock) ==
    LET t == SqlDateParse(text, clock)
    IN  IF IsNaN(t) THEN NaN
        ELSE IF t[1] + n > MaxSqlDay \/ t[1] + n < MinSqlDay THEN NaN
        ELSE TruncSec(AddDays(t, n))

\* a <= b and a > b on datetime() texts: NULL ("N") when either side is NULL
SqlLeq(a, b) == IF IsNaN(a) \/ IsNaN(b) THEN "N" ELSE IF Leq(a, b) THEN "T" ELSE "F"
SqlGt(a, b) == IF IsNaN(a) \/ IsNaN(b) THEN "N" ELSE IF Lt(b, a) THEN "T" ELSE "F"
SqlOr(p, q) ==
    IF p = "T" \/ q = "T" THEN "T" ELSE IF p = "F" /\ q = "F" THEN "F" ELSE "N"
SqlAnd(p, q) ==
    IF p = "F" \/ q = "F" THEN "F" ELSE IF p = "T" /\ q = "T" THEN "T" ELSE "N"
SqlIsNull(text) == IF text.k = "null" THEN "T" ELSE "F"
SqlIsNotNull(text) == IF text.k = "null" THEN "F" ELSE "T"

\* a 'due' clause that lacks "last_watered_at IS NULL OR"
WhereDueNoNull(row, clock) ==
    SqlLeq(SqlDatetime(row.last_watered_at, row.watering_interval_days, clock),
           SqlDatetime(NowText, 0, clock))

\* the WHERE clause of filter 'due'
WhereDue(row, clock) ==
    SqlOr(SqlIsNull(row.last_watered_at),
          SqlLeq(SqlDatetime(row.last_watered_at, row.watering_interval_days, clock),
                 SqlDatetime(NowText, 0, clock)))

\* the WHERE clause of filter 'upcoming'
WhereUpcoming(row, clock) ==
    SqlAnd(SqlIsNotNull(row.last_watered_at),
           SqlGt(SqlDatetime(row.last_watered_at, row.watering_interval_days, clock),
                 SqlDatetime(NowText, 0, clock)))

\* rows a query with the filter's WHERE clause selects (a row is selected
\* when the clause is true, not when it is false or NULL); any other filter
\* value adds no clause
Selected(rows, filter, clock) ==
    IF filter = "due" THEN {r \in rows : WhereDue(r, clock) = "T"}
    ELSE IF filter = "upcoming" THEN {r \in rows : WhereUpcoming(r, clock) = "T"}
    ELSE rows

\* ORDER BY created_at ASC, id DESC
BeforeOldestFirst(r1, r2) ==
    \/ Lt(r1.created_at, r2.created_at)
    \/ (r1.created_at = r2.created_at /\ r1.id > r2.id)

\* ORDER BY created_at DESC, id DESC
Before(r1, r2) ==
    \/ Lt(r2.created_at, r1.created_at)
    \/ (r1.created_at = r2.created_at /\ r1.id > r2.id)

RECURSIVE OrderBy(_)
OrderBy(rows) ==
    IF rows = {} THEN <<>>
    ELSE LET first == CHOOSE r \in rows : \A o \in rows \ {r} : Before(r, o)
         IN  <<first>> \o OrderBy(rows \ {first})

----------------------------------------------------------------------------
(* Row mapping (server)                                                    *)

\* nextWateringDueAt(lastWateredAt, wateringIntervalDays): null, an ISO
\* text, or RangeError thrown by toISOString
nextWateringDueAt(lastWateredAt, wateringIntervalDays, zone) ==
    IF Falsy(lastWateredAt) THEN Null
    ELSE LET last == DateParse(lastWateredAt)
         IN  IF IsNaN(last) THEN Null
             ELSE toISOString(setDatePlus(zone, last, wateringIntervalDays))

mapRow(row, zone) ==
    [id |-> row.id,
     name |-> row.name,
     species |-> row.species,
     wateringIntervalDays |-> row.watering_interval_days,
     lastWateredAt |-> row.last_watered_at,
     notes |-> row.notes,
     createdAt |-> row.created_at,
     nextWateringDueAt |->
        nextWateringDueAt(row.last_watered_at, row.watering_interval_days, zone)]

\* mapRow throws when nextWateringDueAt does
Throws(plant) == plant.nextWateringDueAt.k = "RangeError"

\* a function's outcome: the value it resolves to, or the error it rejects with
Ok(v) == [ok |-> TRUE, v |-> v]
Thrown == [ok |-> FALSE, v |-> <<>>]

\* listPlants({ filter }): the mapped rows in query order; rejects when
\* mapping one of them throws
listPlants(rows, filter, clock, zone) ==
    LET ordered == OrderBy(Selected(rows, filter, clock))
        plants == [i \in 1..Len(ordered) |-> mapRow(ordered[i], zone)]
    IN  IF \E i \in 1..Len(plants) : Throws(plants[i]) THEN Thrown ELSE Ok(plants)

\* getPlant(id): <<plant>>, or <<>> for null
getPlant(rows, id, zone) ==
    LET hit == {r \in rows : r.id = id}
    IN  IF hit = {} THEN Ok(<<>>)
        ELSE LET plant == mapRow(CHOOSE r \in hit : TRUE, zone)
             IN  IF Throws(plant) THEN Thrown ELSE Ok(<<plant>>)

----------------------------------------------------------------------------
(* Client classifiers (display layer)                                      *)

\* an isDueNow that compares with < instead of <=
isDueNowStrict(plant, clock) ==
    IF Falsy(plant.lastWateredAt) THEN TRUE
    ELSE IF Falsy(plant.nextWateringDueAt) THEN TRUE
    ELSE LET dueDate == DateParse(plant.nextWateringDueAt)
         IN  IF IsNaN(dueDate) THEN TRUE ELSE Lt(dueDate, clock)

\* isDueNow(plant), with Date.now() = clock
isDueNow(plant, clock) ==
    IF Falsy(plant.lastWateredAt) THEN TRUE
    ELSE IF Falsy(plant.nextWateringDueAt) THEN TRUE
    ELSE LET dueDate == DateParse(plant.nextWateringDueAt)
         IN  IF IsNaN(dueDate) THEN TRUE ELSE Leq(dueDate, clock)

\* Math.floor(x / y) for y > 0
Floor(x, y) == x \div y

\* Math.ceil(x / y) for y > 0
Ceil(x, y) == 0 - ((0 - x) \div y)

\* Math.round((dueDate.getTime() - Date.now()) / msPerDay)
DiffDaysRounded(dueDate, clock) ==
    (dueDate[1] - clock[1]) + ((2 * (dueDate[2] - clock[2]) + msPerDay) \div (2 * msPerDay))

\* Math.ceil((dueDate.getTime() - Date.now()) / msPerDay)
DiffDays(dueDate, clock) ==
    (dueDate[1] - clock[1]) + Ceil(dueDate[2] - clock[2], msPerDay)

Abs(n) == IF n < 0 THEN 0 - n ELSE n

\* dueLabel(plant), with Date.now() = clock
dueLabel(plant, clock) ==
    IF Falsy(plant.lastWateredAt) \/ Falsy(plant.nextWateringDueAt)
    THEN [text |-> "Needs water", tone |-> "due"]
    ELSE LET dueDate == DateParse(plant.nextWateringDueAt)
         IN  IF IsNaN(dueDate) THEN [text |-> "Needs water", tone |-> "due"]
             ELSE LET diffDays == DiffDays(dueDate, clock)
                  IN  IF diffDays <= 0
                      THEN [text |-> IF diffDays < 0
                                     THEN "Overdue " \o ToString(Abs(diffDays)) \o "d"
                                     ELSE "Due today",
                            tone |-> "due"]
                      ELSE IF diffDays <= 2
                      THEN [text |-> "Due in " \o ToString(diffDays) \o "d",
                            tone |-> "soon"]
                      ELSE [text |-> "Due in " \o ToString(diffDays) \o "d",
                            tone |-> "ok"]

\* App: plants.filter((plant) => isDueNow(plant)).length
dueNowCount(plants, clock) ==
    Cardinality({i \in 1..Len(plants) : isDueNow(plants[i], clock)})

\* App: plants.length - dueNowCount
upcomingCount(plants, clock) == Len(plants) - dueNowCount(plants, clock)

----------------------------------------------------------------------------
(* Request values.  A JSON value is a record with its typeof-class ty      *)
(* ("undefined" for a property the body does not carry, "null", "string",  *)
(* "number", "boolean") and its content: s, a string as a sequence of      *)
(* characters; n / whole, a number (whole = FALSE: not integer-valued) or  *)
(* the number a string spells (whole = FALSE: it spells none, or a         *)
(* fraction); text, a string offered as a date.                            *)

Undefined == [k |-> "undefined", d |-> 0, m |-> 0]

RECURSIVE TrimStart(_)
TrimStart(s) == IF s # <<>> /\ Head(s) = " " THEN TrimStart(Tail(s)) ELSE s

RECURSIVE TrimEnd(_)
TrimEnd(s) ==
    IF s # <<>> /\ s[Len(s)] = " " THEN TrimEnd(SubSeq(s, 1, Len(s) - 1)) ELSE s

Trim(s) == TrimEnd(TrimStart(s))

formatText(raw) == IF raw.ty # "string" THEN <<>> ELSE Trim(raw.s)

formatNotes(raw) == IF raw.ty # "string" THEN <<>> ELSE Trim(raw.s)

\* parseId(raw): raw is the path segment, spelling the integer raw.n when
\* raw.whole; 0 stands for null
parseId(raw) == IF raw.whole /\ raw.n > 0 THEN raw.n ELSE 0

\* Number(raw)
ToNumber(raw) ==
    CASE raw.ty = "number" -> [whole |-> raw.whole, n |-> raw.n]
      [] raw.ty = "string" -> [whole |-> raw.whole, n |-> raw.n]
      [] raw.ty = "boolean" -> [whole |-> TRUE, n |-> raw.n]
      [] raw.ty = "null" -> [whole |-> TRUE, n |-> 0]
      [] OTHER -> [whole |-> FALSE, n |-> 0]

\* a parseInterval that lacks the upper limit
parseIntervalNoMax(raw) ==
    LET value == ToNumber(raw)
    IN  IF ~value.whole THEN 0
        ELSE IF value.n >= 1 THEN value.n ELSE 0

\* parseInterval(raw); 0 stands for null
parseInterval(raw) ==
    LET value == ToNumber(raw)
    IN  IF ~value.whole THEN 0
        ELSE IF value.n >= 1 /\ value.n <= 365 THEN value.n ELSE 0

\* parseDateOrNull(raw): Null, Undefined or the ISO text
parseDateOrNull(raw) ==
    IF raw.ty = "undefined" THEN Null
    ELSE IF raw.ty = "null" \/ (raw.ty = "string" /\ raw.text.k = "empty") THEN Null
    ELSE IF raw.ty # "string" THEN Undefined
    ELSE LET date == DateParse(raw.text)
         IN  IF IsNaN(date) THEN Undefined ELSE toISOString(date)

----------------------------------------------------------------------------
(* Storage functions.  Each yields the table, the AUTOINCREMENT counter    *)
(* and the file it leaves, and its outcome out.                            *)

Effect(rows, s, f, out) == [db |-> rows, seq |-> s, file |-> f, out |-> out]

\* persistDatabase(db): the file holds an export of the table
persistDatabase(rows) == rows

\* a rowid that counts the rows the table holds
RowCountId(rows, s) == Cardinality(rows) + 1

\* the rowid INSERT assigns under AUTOINCREMENT: one more than the largest
\* rowid the table has ever held
NewRowId(rows, s) == s + 1

\* createPlant({name, species, wateringIntervalDays, lastWateredAt, notes})
createPlant(rows, s, f, input, clock, zone) ==
    LET id == NewRowId(rows, s)
        row == [id |-> id,
                name |-> input.name,
                species |-> input.species,
                watering_interval_days |-> input.wateringIntervalDays,
                last_watered_at |-> input.lastWateredAt,
                notes |-> input.notes,
                created_at |-> TruncSec(clock)]
        inserted == rows \cup {row}
    IN  Effect(inserted, id, persistDatabase(inserted), getPlant(inserted, id, zone))

\* typeof v === 'string' for a date text
IsStringText(text) == text.k \in {"iso", "empty", "junk", "now"}

\* an UPDATE that writes '' for notes the update does not carry
UpdateRowBlankNotes(rows, id, e, updates) ==
    {IF r.id = id
     THEN [r EXCEPT !.name = IF updates.name.ty = "string" /\ Len(updates.name.s) > 0
                              THEN updates.name.s ELSE e.name,
                    !.species = IF updates.species.ty = "string"
                                   /\ Len(updates.species.s) > 0
                                THEN updates.species.s ELSE e.species,
                    !.watering_interval_days =
                        IF updates.wateringIntervalDays.ty = "number"
                           /\ updates.wateringIntervalDays.whole
                        THEN updates.wateringIntervalDays.n ELSE e.wateringIntervalDays,
                    !.last_watered_at =
                        IF IsStringText(updates.lastWateredAt)
                           \/ updates.lastWateredAt.k = "null"
                        THEN updates.lastWateredAt ELSE e.lastWateredAt,
                    !.notes = IF updates.notes.ty = "string" THEN updates.notes.s ELSE <<>>]
     ELSE r : r \in rows}

\* the UPDATE statement of updatePlant
UpdateRow(rows, id, e, updates) ==
    LET nextName ==
            IF updates.name.ty = "string" /\ Len(updates.name.s) > 0
            THEN updates.name.s ELSE e.name
        nextSpecies ==
            IF updates.species.ty = "string" /\ Len(updates.species.s) > 0
            THEN updates.species.s ELSE e.species
        nextWateringIntervalDays ==
            IF updates.wateringIntervalDays.ty = "number"
               /\ updates.wateringIntervalDays.whole
            THEN updates.wateringIntervalDays.n ELSE e.wateringIntervalDays
        nextLastWateredAt ==
            IF IsStringText(updates.lastWateredAt) \/ updates.lastWateredAt.k = "null"
            THEN updates.lastWateredAt ELSE e.lastWateredAt
        nextNotes ==
            IF updates.notes.ty = "string" THEN updates.notes.s ELSE e.notes
    IN  {IF r.id = id
         THEN [r EXCEPT !.name = nextName,
                        !.species = nextSpecies,
                        !.watering_interval_days = nextWateringIntervalDays,
                        !.last_watered_at = nextLastWateredAt,
                        !.notes = nextNotes]
         ELSE r : r \in rows}

\* updatePlant(id, updates)
updatePlant(rows, s, f, id, updates, zone) ==
    LET existing == getPlant(rows, id, zone)
    IN  IF ~existing.ok THEN Effect(rows, s, f, Thrown)
        ELSE IF existing.v = <<>> THEN Effect(rows, s, f, Ok(<<>>))
        ELSE LET updated == UpdateRow(rows, id, existing.v[1], updates)
             IN  Effect(updated, s, persistDatabase(updated), getPlant(updated, id, zone))

\* a deletePlant that reports a removal whatever the table held
deletePlantBlind(rows, s, f, id) ==
    LET kept == {r \in rows : r.id # id}
    IN  Effect(kept, s, persistDatabase(kept), Ok(TRUE))

\* deletePlant(id)
deletePlant(rows, s, f, id) ==
    LET kept == {r \in rows : r.id # id}
        removed == kept # rows
    IN  Effect(kept, s, IF removed THEN persistDatabase(kept) ELSE f, Ok(removed))

----------------------------------------------------------------------------
(* HTTP handlers.  A response is its status, its error message and the     *)
(* plants of its body.                                                     *)

Response(op, status, error, plants) ==
    [op |-> op, status |-> status, error |-> error, body |-> plants]

Str(s) == [ty |-> "string", s |-> s]
Num(n) == [ty |-> "number", n |-> n, whole |-> TRUE]
Absent == [ty |-> "undefined", s |-> <<>>, n |-> 0, whole |-> FALSE, text |-> Undefined]

\* the error-handling middleware
ServerError(op) == Response(op, 500, "Unexpected server error", <<>>)

\* what a handler does: the storage effect it causes and the response
Handled(rows, s, f, response) == [db |-> rows, seq |-> s, file |-> f, res |-> response]

\* app.post('/plants')
PostPlants(rows, s, f, body, clock, zone) ==
    LET name == formatText(body.name)
        species == formatText(body.species)
        wateringIntervalDays == parseInterval(body.wateringIntervalDays)
        notes == formatNotes(body.notes)
        lastWateredAt == parseDateOrNull(body.lastWateredAt)
        reject(msg) == Handled(rows, s, f, Response("POST", 400, msg, <<>>))
    IN  IF name = <<>> THEN reject("Name is required")
        ELSE IF species = <<>> THEN reject("Species is required")
        ELSE IF wateringIntervalDays = 0
             THEN reject("wateringIntervalDays must be between 1 and 365")
        ELSE IF lastWateredAt = Undefined
             THEN reject("lastWateredAt must be a valid date or null")
        ELSE LET e == createPlant(rows, s, f,
                        [name |-> name, species |-> species,
                         wateringIntervalDays |-> wateringIntervalDays,
                         lastWateredAt |-> lastWateredAt, notes |-> notes],
                        clock, zone)
             IN  Handled(e.db, e.seq, e.file,
                    IF ~e.out.ok THEN ServerError("POST")
                    ELSE IF e.out.v = <<>>
                         THEN Response("POST", 500, "Could not create plant", <<>>)
                    ELSE Response("POST", 201, "", e.out.v))

\* the tail shared by PUT and PATCH: call updatePlant and answer
Updated(op, rows, s, f, id, updates, zone) ==
    LET e == updatePlant(rows, s, f, id, updates, zone)
    IN  Handled(e.db, e.seq, e.file,
            IF ~e.out.ok THEN ServerError(op)
            ELSE IF e.out.v = <<>> THEN Response(op, 404, "Plant not found", <<>>)
            ELSE Response(op, 200, "", e.out.v))

\* app.put('/plants/:id')
PutPlant(rows, s, f, rawId, body, zone) ==
    LET id == parseId(rawId)
        name == formatText(body.name)
        species == formatText(body.species)
        wateringIntervalDays == parseInterval(body.wateringIntervalDays)
        notes == formatNotes(body.notes)
        lastWateredAt == parseDateOrNull(body.lastWateredAt)
        reject(msg) == Handled(rows, s, f, Response("PUT", 400, msg, <<>>))
    IN  IF id = 0 THEN reject("Invalid id")
        ELSE IF name = <<>> \/ species = <<>> \/ wateringIntervalDays = 0
             THEN reject("name, species, and wateringIntervalDays are required")
        ELSE IF lastWateredAt = Undefined
             THEN reject("lastWateredAt must be a valid date or null")
        ELSE Updated("PUT", rows, s, f, id,
                [name |-> Str(name), species |-> Str(species),
                 wateringIntervalDays |-> Num(wateringIntervalDays),
                 lastWateredAt |-> lastWateredAt, notes |-> Str(notes)],
                zone)

\* app.patch('/plants/:id')
PatchPlant(rows, s, f, rawId, body, zone) ==
    LET id == parseId(rawId)
        hasName == body.name.ty = "string"
        name == formatText(body.name)
        hasSpecies == body.species.ty = "string"
        species == formatText(body.species)
        hasInterval == body.wateringIntervalDays.ty # "undefined"
        wateringIntervalDays == parseInterval(body.wateringIntervalDays)
        hasNotes == body.notes.ty # "undefined"
        hasLastWateredAt == body.lastWateredAt.ty # "undefined"
        lastWateredAt == parseDateOrNull(body.lastWateredAt)
        payload ==
            [name |-> IF hasName THEN Str(name) ELSE Absent,
             species |-> IF hasSpecies THEN Str(species) ELSE Absent,
             wateringIntervalDays |->
                IF hasInterval THEN Num(wateringIntervalDays) ELSE Absent,
             notes |-> IF hasNotes THEN Str(formatNotes(body.notes)) ELSE Absent,
             lastWateredAt |-> IF hasLastWateredAt THEN lastWateredAt ELSE Undefined]
        reject(msg) == Handled(rows, s, f, Response("PATCH", 400, msg, <<>>))
    IN  IF id = 0 THEN reject("Invalid id")
        ELSE IF hasName /\ name = <<>> THEN reject("Name cannot be empty")
        ELSE IF hasSpecies /\ species = <<>> THEN reject("Species cannot be empty")
        ELSE IF hasInterval /\ wateringIntervalDays = 0
             THEN reject("wateringIntervalDays must be between 1 and 365")
        ELSE IF hasLastWateredAt /\ lastWateredAt = Undefined
             THEN reject("lastWateredAt must be a valid date or null")
        ELSE IF ~(hasName \/ hasSpecies \/ hasInterval \/ hasNotes \/ hasLastWateredAt)
             THEN reject("Nothing to update")
        ELSE Updated("PATCH", rows, s, f, id, payload, zone)

\* app.delete('/plants/:id')
DeletePlant(rows, s, f, rawId) ==
    LET id == parseId(rawId)
    IN  IF id = 0
        THEN Handled(rows, s, f, Response("DELETE", 400, "Invalid id", <<>>))
        ELSE LET e == deletePlant(rows, s, f, id)
             IN  Handled(e.db, e.seq, e.file,
                    IF ~e.out.v THEN Response("DELETE", 404, "Plant not found", <<>>)
                    ELSE Response("DELETE", 204, "", <<>>))

\* String.prototype.toLowerCase on the filter values the model sends
toLowerCase(str) == IF str = "DUE" THEN "due" ELSE str

\* app.get('/plants'); query "" stands for a request without ?filter=
GetPlants(rows, s, f, query, clock, zone) ==
    LET filter == IF query = "" THEN "undefined" ELSE toLowerCase(query)
        plants == listPlants(rows, filter, clock, zone)
    IN  Handled(rows, s, f,
            IF ~plants.ok THEN ServerError("GET") ELSE Response("GET", 200, "", plants.v))

----------------------------------------------------------------------------
(* Inputs of the API specification                                         *)

Noon == 12 * msPerHour

\* instants a request may name as lastWateredAt: an ordinary one, the last
\* day of year 9999 and the last instant a Date can hold
Watered == <<BaseDay, Noon + 500>>
WateredEdge == <<MaxSqlDay, 0>>
WateredMax == <<MaxJsDay, 0>>

\* readings of the host clock: the start, then - seven days after Watered -
\* 300 ms before that instant within the same second, and that instant
StartClock == <<BaseDay, Noon>>
ClockTicks == {<<BaseDay + 7, Noon + 200>>, <<BaseDay + 7, Noon + 500>>}

DateStr(text) == [ty |-> "string", text |-> text]
JsonNull == [ty |-> "null", s |-> <<>>, n |-> 0, whole |-> FALSE, text |-> Null]

Body(name, species, interval, notes, watered) ==
    [name |-> name, species |-> species, wateringIntervalDays |-> interval,
     notes |-> notes, lastWateredAt |-> watered]

BaseBody == Body(Str(<<" ", "F">>), Str(<<"S">>), Num(7), Absent, JsonNull)
EmptyBody == Body(Absent, Absent, Absent, Absent, Absent)

WateredInputs ==
    {JsonNull, DateStr(Iso(Watered)), DateStr(Iso(WateredEdge)),
     DateStr(Iso(WateredMax)), DateStr(JunkText)}

\* complete bodies: a seven-day plant with each lastWateredAt, and two
\* bodies that lack a name or carry interval 0
FullBodies ==
    {[BaseBody EXCEPT !.lastWateredAt = w] : w \in WateredInputs}
    \cup {[BaseBody EXCEPT !.name = Absent],
          [BaseBody EXCEPT !.wateringIntervalDays = Num(0)]}

\* bodies of PUT: two complete ones and one that lacks a name
PutBodies ==
    {BaseBody, [BaseBody EXCEPT !.lastWateredAt = DateStr(Iso(Watered))],
     [BaseBody EXCEPT !.name = Absent]}

\* partial bodies: nothing, or lastWateredAt alone (null, a date, no date)
PartialBodies ==
    {EmptyBody}
    \cup {[EmptyBody EXCEPT !.lastWateredAt = w] :
                w \in {JsonNull, DateStr(Iso(Watered)), DateStr(JunkText)}}

\* path segments: the ids the table can hold, one beyond, and "0", "abc"
IdInputs ==
    {[whole |-> TRUE, n |-> i] : i \in 0..(MaxId + 1)} \cup {[whole |-> FALSE, n |-> 0]}

FilterInputs == {"", "all", "due", "upcoming", "DUE"}

----------------------------------------------------------------------------
(* The API as a state machine: one request at a time                       *)

NoResponse == Response("none", 0, "", <<>>)

\* requests the server can have in flight at once
Reqs == 1..MaxReq

\* a request slot no request occupies
NoRequest ==
    [pc |-> "idle", op |-> "none", id |-> 0, updates |-> <<>>, existing |-> <<>>,
     snapshot |-> {}, res |-> NoResponse]

\* the event loop with the database loaded and nothing in flight: loaded is
\* the state of databasePromise, waiting the calls suspended on it while it
\* is pending, micro the continuations queued to run, req the requests
EventLoop(loaded) ==
    [loaded |-> loaded, waiting |-> <<>>, micro |-> <<>>, req |-> [r \in Reqs |-> NoRequest]]

Idle == EventLoop("resolved")

Init ==
    /\ db = {}
    /\ seq = 0
    /\ file = {}
    /\ now = StartClock
    /\ tz \in HostZones
    /\ res = NoResponse
    /\ tasks = Idle

Apply(h) ==
    /\ h.seq <= MaxId
    /\ db' = h.db
    /\ seq' = h.seq
    /\ file' = h.file
    /\ res' = h.res
    /\ UNCHANGED <<now, tz, tasks>>

Post(body) == \E h \in {PostPlants(db, seq, file, body, now, tz)} : Apply(h)

Put(rawId, body) == \E h \in {PutPlant(db, seq, file, rawId, body, tz)} : Apply(h)

Patch(rawId, body) == \E h \in {PatchPlant(db, seq, file, rawId, body, tz)} : Apply(h)

Delete(rawId) == \E h \in {DeletePlant(db, seq, file, rawId)} : Apply(h)

Get(query) == \E h \in {GetPlants(db, seq, file, query, now, tz)} : Apply(h)

\* time passes; the last response has been delivered
Tick(t) ==
    /\ Lt(now, t)
    /\ now' = t
    /\ res' = NoResponse
    /\ UNCHANGED <<db, seq, file, tz, tasks>>

Next ==
    \/ \E body \in FullBodies : Post(body)
    \/ \E rawId \in IdInputs, body \in PutBodies : Put(rawId, body)
    \/ \E rawId \in IdInputs, body \in PartialBodies : Patch(rawId, body)
    \/ \E rawId \in IdInputs : Delete(rawId)
    \/ \E query \in FilterInputs : Get(query)
    \/ \E t \in ClockTicks : Tick(t)

Spec == Init /\ [][Next]_vars

----------------------------------------------------------------------------
(* The API with requests that vary the text and interval fields            *)

\* true, "1", 1.5, 0, 366, "abc", null
OtherIntervalInputs ==
    {[ty |-> "boolean", n |-> 1, whole |-> TRUE],
     [ty |-> "string", n |-> 1, whole |-> TRUE],
     [ty |-> "number", n |-> 1, whole |-> FALSE],
     Num(0), Num(366),
     [ty |-> "string", n |-> 0, whole |-> FALSE],
     JsonNull}

IntervalInputs == {Num(1), Num(365)} \cup OtherIntervalInputs

FieldBodies ==
    {[BaseBody EXCEPT !.wateringIntervalDays = v] : v \in IntervalInputs \cup {Absent}}
    \cup {[BaseBody EXCEPT !.wateringIntervalDays = Num(1),
                           !.lastWateredAt = DateStr(Iso(Watered))],
          [BaseBody EXCEPT !.name = Str(<<" ">>)],
          [BaseBody EXCEPT !.species = Absent],
          [BaseBody EXCEPT !.lastWateredAt = DateStr(NowText)]}

FieldPatches ==
    {EmptyBody, [EmptyBody EXCEPT !.lastWateredAt = DateStr(EmptyText)]}
    \cup {[EmptyBody EXCEPT !.wateringIntervalDays = v] : v \in IntervalInputs}

NextFields ==
    \/ \E body \in FieldBodies : Post(body)
    \/ \E rawId \in IdInputs, body \in FieldBodies : Put(rawId, body)
    \/ \E rawId \in IdInputs, body \in FieldPatches : Patch(rawId, body)
    \/ \E rawId \in IdInputs : Delete(rawId)
    \/ \E query \in FilterInputs : Get(query)

SpecFields == Init /\ [][NextFields]_vars

----------------------------------------------------------------------------
(* The storage module called directly: createPlant and updatePlant are     *)
(* exported and store whatever string they are given as lastWateredAt      *)

StoreTexts == {Null, JunkText, EmptyText, NowText, Iso(Watered)}

\* what a direct call returned: the plants it resolved to (<<>> for null;
\* deletePlant's boolean as a one-element tuple), or that it rejected
Returned(op, out) ==
    IF ~out.ok THEN Response(op, 0, "rejected", <<>>)
    ELSE Response(op, 0, "", IF op = "deletePlant" THEN <<out.v>> ELSE out.v)

ApplyEffect(op, e) ==
    /\ e.seq <= MaxId
    /\ db' = e.db
    /\ seq' = e.seq
    /\ file' = e.file
    /\ res' = Returned(op, e.out)
    /\ UNCHANGED <<now, tz, tasks>>

StoreCreate(text) ==
    \E e \in {createPlant(db, seq, file,
                [name |-> <<"F">>, species |-> <<"S">>, wateringIntervalDays |-> 7,
                 lastWateredAt |-> text, notes |-> <<>>], now, tz)} :
        ApplyEffect("createPlant", e)

StoreUpdate(id, text) ==
    \E e \in {updatePlant(db, seq, file, id,
                [name |-> Absent, species |-> Absent, wateringIntervalDays |-> Absent,
                 notes |-> Absent, lastWateredAt |-> text], tz)} :
        ApplyEffect("updatePlant", e)

StoreDelete(id) ==
    \E e \in {deletePlant(db, seq, file, id)} : ApplyEffect("deletePlant", e)

StoreList(filter) ==
    \E out \in {listPlants(db, filter, now, tz)} :
        ApplyEffect("listPlants", Effect(db, seq, file, out))

StoreGet(id) ==
    \E out \in {getPlant(db, id, tz)} : ApplyEffect("getPlant", Effect(db, seq, file, out))

NextStore ==
    \/ \E text \in StoreTexts : StoreCreate(text)
    \/ \E id \in 1..(MaxId + 1), text \in StoreTexts \cup {Undefined} : StoreUpdate(id, text)
    \/ \E id \in 1..(MaxId + 1) : StoreDelete(id)
    \/ \E filter \in {"all", "due", "upcoming"} : StoreList(filter)
    \/ \E id \in 1..(MaxId + 1) : StoreGet(id)
    \/ \E t \in ClockTicks : Tick(t)

SpecStore == Init /\ [][NextStore]_vars

----------------------------------------------------------------------------
(* Reading and displaying: the table holds two plants the API can store,   *)
(* the client fetches a list and renders a badge for each plant            *)

ReadIntervals == {1, 7, 10, 365}
ReadTexts == {Null, Iso(Watered), Iso(WateredEdge), Iso(WateredMax)}

\* after Watered: one day, two days, seven days less 300 ms, seven days,
\* nine days, ten days
ReadTicks ==
    {AddDays(Watered, 1), AddDays(Watered, 2), AddMs(AddDays(Watered, 7), 0 - 300),
     AddDays(Watered, 7), AddDays(Watered, 9), AddDays(Watered, 10)}

StoredRow(id, n, text) ==
    [id |-> id, name |-> <<"F">>, species |-> <<"S">>, watering_interval_days |-> n,
     last_watered_at |-> text, notes |-> <<>>, created_at |-> TruncSec(StartClock)]

InitRead ==
    /\ \E n \in ReadIntervals, t1 \in ReadTexts, t2 \in ReadTexts :
            db = {StoredRow(1, n, t1), StoredRow(2, 7, t2)}
    /\ seq = 2
    /\ file = db
    /\ now = StartClock
    /\ tz \in HostZones
    /\ res = NoResponse
    /\ tasks = Idle

\* App: the badge and the due flag of every fetched plant
View(plants, clock) ==
    [i \in 1..Len(plants) |->
        [plant |-> plants[i],
         due |-> isDueNow(plants[i], clock),
         label |-> dueLabel(plants[i], clock)]]

\* the client renders the list it has just fetched
Render ==
    /\ res.op = "GET"
    /\ res.status = 200
    /\ res' = Response("render", 0, "", View(res.body, now))
    /\ UNCHANGED <<db, seq, file, now, tz, tasks>>

NextRead ==
    \/ \E query \in FilterInputs : Get(query)
    \/ Render
    \/ \E t \in ReadTicks : Tick(t)

SpecRead == InitRead /\ [][NextRead]_vars

----------------------------------------------------------------------------
(* Partial updates: the table holds two plants and PATCH requests name     *)
(* one field or two                                                        *)

PatchBodies ==
    {EmptyBody,
     [EmptyBody EXCEPT !.name = Str(<<"G", " ">>)],
     [EmptyBody EXCEPT !.name = Str(<<" ">>)],
     [EmptyBody EXCEPT !.name = Num(5)],
     [EmptyBody EXCEPT !.species = Str(<<"T">>)],
     [EmptyBody EXCEPT !.notes = Str(<<"n">>)],
     [EmptyBody EXCEPT !.notes = JsonNull],
     [EmptyBody EXCEPT !.wateringIntervalDays = Num(1)],
     [EmptyBody EXCEPT !.wateringIntervalDays = Num(0)],
     [EmptyBody EXCEPT !.lastWateredAt = JsonNull],
     [EmptyBody EXCEPT !.lastWateredAt = DateStr(EmptyText)],
     [EmptyBody EXCEPT !.lastWateredAt = DateStr(Iso(Watered))],
     [EmptyBody EXCEPT !.lastWateredAt = DateStr(JunkText)],
     [EmptyBody EXCEPT !.name = Str(<<"G">>), !.lastWateredAt = JsonNull]}

InitPatch ==
    /\ db = {StoredRow(1, 7, Iso(Watered)), StoredRow(2, 7, Null)}
    /\ seq = 2
    /\ file = db
    /\ now = StartClock
    /\ tz = "utc"
    /\ res = NoResponse
    /\ tasks = Idle

NextPatch ==
    \/ \E rawId \in IdInputs, body \in PatchBodies : Patch(rawId, body)
    \/ \E rawId \in IdInputs : Delete(rawId)

SpecPatch == InitPatch /\ [][NextPatch]_vars

----------------------------------------------------------------------------
(* Requests in flight together.  Node runs one callback at a time: a call  *)
(* runs until it awaits, continuations of settled promises run in the      *)
(* order they were queued, and a new event (a request arriving, the        *)
(* database file read, a file write finished) is taken only when no        *)
(* continuation is queued.                                                 *)

\* the table the database file holds when the server starts
StartRows == {StoredRow(1, 7, Null)}

NoUpdates ==
    [name |-> Absent, species |-> Absent, wateringIntervalDays |-> Absent,
     notes |-> Absent, lastWateredAt |-> Undefined]

\* payloads app.patch builds: a name, notes, or a lastWateredAt alone
PatchPayloads ==
    {[NoUpdates EXCEPT !.name = Str(<<"G">>)],
     [NoUpdates EXCEPT !.notes = Str(<<"n">>)],
     [NoUpdates EXCEPT !.lastWateredAt = Iso(Watered)]}

\* what app.post passes to createPlant
NewPlant ==
    [name |-> <<"F">>, species |-> <<"S">>, wateringIntervalDays |-> 7,
     lastWateredAt |-> Null, notes |-> <<>>]

\* valid requests: PATCH /plants/1, POST /plants, DELETE /plants/1
Requests ==
    {[op |-> "PATCH", id |-> 1, updates |-> u] : u \in PatchPayloads}
    \cup {[op |-> "POST", id |-> 0, updates |-> NoUpdates],
          [op |-> "DELETE", id |-> 1, updates |-> NoUpdates]}

InitAsync ==
    /\ file = StartRows
    /\ seq = 1
    /\ now = StartClock
    /\ tz = "utc"
    /\ res = NoResponse
    /\ \/ db = {} /\ tasks = EventLoop("unset")
       \/ db = file /\ tasks = Idle

\* the handler answers: the request is over
Finish(t, r, response) ==
    [t EXCEPT !.req[r].pc = "done", !.req[r].res = response]

\* the call suspends on a promise that is settled: its continuation is queued
Await(t, r, pc) ==
    [t EXCEPT !.req[r].pc = pc, !.micro = Append(@, r)]

\* persistDatabase(db) up to its await: the export is taken, the write begins
BeginWrite(t, r, rows) ==
    [t EXCEPT !.req[r].pc = "writeFile", !.req[r].snapshot = persistDatabase(rows)]

\* a request arrives: the handler validates and calls the storage function,
\* which runs to its first await getDatabase(); the first call of
\* getDatabase() starts loading the file
Arrive(r, q) ==
    /\ tasks.micro = <<>>
    /\ tasks.req[r].pc = "idle"
    /\ \A r2 \in Reqs : r2 < r => tasks.req[r2].pc # "idle"
    /\ LET started == [tasks EXCEPT !.req[r] =
                            [NoRequest EXCEPT !.pc = "getDatabase", !.op = q.op,
                                              !.id = q.id, !.updates = q.updates]]
       IN  tasks' =
                IF tasks.loaded = "resolved"
                THEN [started EXCEPT !.micro = Append(@, r)]
                ELSE [started EXCEPT !.loaded = "pending", !.waiting = Append(@, r)]
    /\ UNCHANGED <<db, seq, file, now, tz, res>>

\* getDatabase: the file has been read and databasePromise resolves; the
\* calls suspended on it continue in the order they arrived
Loaded ==
    /\ tasks.loaded = "pending"
    /\ tasks.micro = <<>>
    /\ db' = file
    /\ tasks' = [tasks EXCEPT !.loaded = "resolved", !.micro = tasks.waiting,
                              !.waiting = <<>>]
    /\ UNCHANGED <<seq, file, now, tz, res>>

\* the continuation of the request is the one at the head of the queue
Runs(r) == tasks.micro # <<>> /\ Head(tasks.micro) = r

\* updatePlant from existing = await getPlant(id) to await getDatabase()
ReadExisting(r) ==
    LET t == [tasks EXCEPT !.micro = Tail(@)]
        existing == getPlant(db, t.req[r].id, tz)
        answer ==
            IF ~existing.ok THEN ServerError("PATCH")
            ELSE Response("PATCH", 404, "Plant not found", <<>>)
    IN  /\ Runs(r)
        /\ tasks.req[r].op = "PATCH"
        /\ tasks.req[r].pc = "getDatabase"
        /\ IF existing.ok /\ existing.v # <<>>
           THEN /\ tasks' = Await([t EXCEPT !.req[r].existing = existing.v], r, "update")
                /\ UNCHANGED res
           ELSE /\ tasks' = Finish(t, r, answer)
                /\ res' = answer
        /\ UNCHANGED <<db, seq, file, now, tz>>

\* updatePlant from the UPDATE statement to await persistDatabase(db), or to
\* return getPlant(id) when no row was modified
WriteBack(r) ==
    LET t == [tasks EXCEPT !.micro = Tail(@)]
        id == t.req[r].id
        updated == UpdateRow(db, id, t.req[r].existing[1], t.req[r].updates)
    IN  /\ Runs(r)
        /\ tasks.req[r].op = "PATCH"
        /\ tasks.req[r].pc = "update"
        /\ db' = updated
        /\ tasks' = IF \E row \in db : row.id = id
                    THEN BeginWrite(t, r, updated)
                    ELSE Await(t, r, "getPlant")
        /\ UNCHANGED <<seq, file, now, tz, res>>

\* createPlant from the INSERT to await persistDatabase(db)
Insert(r) ==
    LET t == [tasks EXCEPT !.micro = Tail(@)]
        id == NewRowId(db, seq)
        row == [id |-> id,
                name |-> NewPlant.name,
                species |-> NewPlant.species,
                watering_interval_days |-> NewPlant.wateringIntervalDays,
                last_watered_at |-> NewPlant.lastWateredAt,
                notes |-> NewPlant.notes,
                created_at |-> TruncSec(now)]
    IN  /\ Runs(r)
        /\ tasks.req[r].op = "POST"
        /\ tasks.req[r].pc = "getDatabase"
        /\ db' = db \cup {row}
        /\ seq' = id
        /\ tasks' = BeginWrite([t EXCEPT !.req[r].id = id], r, db')
        /\ UNCHANGED <<file, now, tz, res>>

\* deletePlant from the DELETE statement to await persistDatabase(db), or
\* to the 404 when no row was removed
Remove(r) ==
    LET t == [tasks EXCEPT !.micro = Tail(@)]
        kept == {row \in db : row.id # t.req[r].id}
        answer == Response("DELETE", 404, "Plant not found", <<>>)
    IN  /\ Runs(r)
        /\ tasks.req[r].op = "DELETE"
        /\ tasks.req[r].pc = "getDatabase"
        /\ db' = kept
        /\ IF kept # db
           THEN /\ tasks' = BeginWrite(t, r, kept)
                /\ UNCHANGED res
           ELSE /\ tasks' = Finish(t, r, answer)
                /\ res' = answer
        /\ UNCHANGED <<seq, file, now, tz>>

\* fs.writeFile of the request's export completes; the call continues
Written(r) ==
    /\ tasks.micro = <<>>
    /\ tasks.req[r].pc = "writeFile"
    /\ file' = tasks.req[r].snapshot
    /\ tasks' = Await(tasks, r, IF tasks.req[r].op = "DELETE" THEN "removed" ELSE "getPlant")
    /\ UNCHANGED <<db, seq, now, tz, res>>

\* return getPlant(id) of createPlant and updatePlant, and the answer
ReadBack(r) ==
    LET t == [tasks EXCEPT !.micro = Tail(@)]
        op == t.req[r].op
        out == getPlant(db, t.req[r].id, tz)
        answer ==
            IF ~out.ok THEN ServerError(op)
            ELSE IF out.v = <<>>
                 THEN IF op = "POST"
                      THEN Response(op, 500, "Could not create plant", <<>>)
                      ELSE Response(op, 404, "Plant not found", <<>>)
            ELSE Response(op, IF op = "POST" THEN 201 ELSE 200, "", out.v)
    IN  /\ Runs(r)
        /\ tasks.req[r].pc = "getPlant"
        /\ tasks' = Finish(t, r, answer)
        /\ res' = answer
        /\ UNCHANGED <<db, seq, file, now, tz>>

\* return removed of deletePlant, and the 204
Removed(r) ==
    LET t == [tasks EXCEPT !.micro = Tail(@)]
        answer == Response("DELETE", 204, "", <<>>)
    IN  /\ Runs(r)
        /\ tasks.req[r].pc = "removed"
        /\ tasks' = Finish(t, r, answer)
        /\ res' = answer
        /\ UNCHANGED <<db, seq, file, now, tz>>

NextAsync ==
    \/ \E r \in Reqs, q \in Requests : Arrive(r, q)
    \/ Loaded
    \/ \E r \in Reqs : ReadExisting(r)
    \/ \E r \in Reqs : WriteBack(r)
    \/ \E r \in Reqs : Insert(r)
    \/ \E r \in Reqs : Remove(r)
    \/ \E r \in Reqs : Written(r)
    \/ \E r \in Reqs : ReadBack(r)
    \/ \E r \in Reqs : Removed(r)

SpecAsync == InitAsync /\ [][NextAsync]_vars

----------------------------------------------------------------------------
(* Claims                                                                  *)

Ids(plants) == {plants[i].id : i \in 1..Len(plants)}

ListAll == listPlants(db, "all", now, tz)
ListDue == listPlants(db, "due", now, tz)
ListUpcoming == listPlants(db, "upcoming", now, tz)
ListsOk == ListAll.ok /\ ListDue.ok /\ ListUpcoming.ok

\* C1: at one instant, the plants listed under 'due' and those listed under
\* 'upcoming' are disjoint and together are exactly those listed under 'all'
C1_DueUpcomingPartitionAll ==
    ListsOk =>
        /\ Ids(ListDue.v) \cap Ids(ListUpcoming.v) = {}
        /\ Ids(ListDue.v) \cup Ids(ListUpcoming.v) = Ids(ListAll.v)

\* the due time of a row as the query computes it: NaN when datetime() is NULL
SqlDue(plant) ==
    SqlDatetime(plant.lastWateredAt, plant.wateringIntervalDays, now)

\* C2: for every stored record whose due time the query can compute (or whose
\* lastWateredAt is null) and the same 'now', the record is listed under 'due'
\* exactly when isDueNow holds of the fetched record, and under 'upcoming'
\* exactly when it does not
C2_FilterAgreesWithIsDueNow ==
    ListsOk =>
        \A i \in 1..Len(ListAll.v) :
            LET plant == ListAll.v[i]
            IN  (plant.lastWateredAt = Null \/ ~IsNaN(SqlDue(plant))) =>
                    /\ plant.id \in Ids(ListDue.v) <=> isDueNow(plant, now)
                    /\ plant.id \in Ids(ListUpcoming.v) <=> ~isDueNow(plant, now)

NeedsWater == [text |-> "Needs water", tone |-> "due"]

\* C3: a record without lastWateredAt is listed under 'due' and not under
\* 'upcoming', has nextWateringDueAt null, isDueNow true and the badge
\* "Needs water" with tone "due" - in the lists of the server, and in what
\* the client renders
C3_NeverWateredIsDue ==
    /\ \A row \in db :
            row.last_watered_at = Null =>
                /\ ListDue.ok /\ row.id \in Ids(ListDue.v)
                /\ ListUpcoming.ok /\ row.id \notin Ids(ListUpcoming.v)
                /\ mapRow(row, tz).nextWateringDueAt = Null
                /\ isDueNow(mapRow(row, tz), now)
                /\ dueLabel(mapRow(row, tz), now) = NeedsWater
    /\ res.op = "render" =>
            \A i \in 1..Len(res.body) :
                res.body[i].plant.lastWateredAt = Null =>
                    /\ res.body[i].plant.nextWateringDueAt = Null
                    /\ res.body[i].due
                    /\ res.body[i].label = NeedsWater

\* a never-watered plant with a one-day interval has been fetched and rendered
\* two days after the start, while a watered plant is still upcoming
C3_Witness ==
    /\ res.op = "render"
    /\ now = AddDays(Watered, 2)
    /\ \E i \in 1..Len(res.body) :
            /\ res.body[i].plant.lastWateredAt = Null
            /\ res.body[i].plant.wateringIntervalDays = 1
            /\ res.body[i].label = NeedsWater
    /\ \E row \in db : row.last_watered_at # Null /\ row.id \in Ids(ListUpcoming.v)


\* a stored lastWateredAt that is not null and that new Date() cannot parse
Unparseable(text) == text.k # "null" /\ IsNaN(DateParse(text))

\* C4: a record whose stored lastWateredAt is not null and does not parse is
\* treated as never watered, without an error: it is listed under 'all' and
\* 'due' and not under 'upcoming', nextWateringDueAt is null, isDueNow is true
\* and the badge is "Needs water"
C4_UnparseableIsDue ==
    \A row \in db :
        Unparseable(row.last_watered_at) =>
            /\ ListsOk
            /\ row.id \in Ids(ListAll.v)
            /\ row.id \in Ids(ListDue.v)
            /\ row.id \notin Ids(ListUpcoming.v)
            /\ mapRow(row, tz).nextWateringDueAt = Null
            /\ isDueNow(mapRow(row, tz), now)
            /\ dueLabel(mapRow(row, tz), now) = NeedsWater

\* the instant a date text names
Instant(text) == <<text.d, text.m>>

\* C5: the comparison is inclusive.  A record whose next-due time - as the
\* query computes it and as nextWateringDueAt carries it - is exactly 'now' is
\* listed under 'due', not under 'upcoming', and isDueNow is true of it; a
\* record is listed under 'upcoming', or has isDueNow false, only when its
\* next-due time is strictly after 'now'
C5_BoundaryInclusive ==
    \A row \in db :
        LET plant == mapRow(row, tz)
        IN  (row.last_watered_at.k = "iso" /\ plant.nextWateringDueAt.k = "iso") =>
                LET queryDue ==
                        AddDays(Instant(row.last_watered_at), row.watering_interval_days)
                    fieldDue == DateParse(plant.nextWateringDueAt)
                IN  /\ (queryDue = now /\ fieldDue = now) =>
                            /\ ListDue.ok /\ row.id \in Ids(ListDue.v)
                            /\ ListUpcoming.ok /\ row.id \notin Ids(ListUpcoming.v)
                            /\ isDueNow(plant, now)
                    /\ (ListUpcoming.ok /\ row.id \in Ids(ListUpcoming.v)) =>
                            Lt(now, queryDue)
                    /\ ~isDueNow(plant, now) => Lt(now, fieldDue)

\* the clock reads exactly Watered + 7 days, a seven-day plant watered at
\* Watered is stored with nextWateringDueAt equal to that reading, and the
\* client has fetched and rendered it as due
C5_Witness ==
    /\ now = AddDays(Watered, 7)
    /\ res.op = "render"
    /\ \E i \in 1..Len(res.body) :
            /\ res.body[i].plant.lastWateredAt = Iso(Watered)
            /\ res.body[i].plant.wateringIntervalDays = 7
            /\ res.body[i].plant.nextWateringDueAt = Iso(now)
            /\ res.body[i].due
            /\ res.body[i].plant.id \in Ids(ListDue.v)

\* next is T advanced by n days: n * 24 hours later, or the same wall-clock
\* reading n days later on the server's calendar
AdvancedByDays(T, n, next) ==
    \/ next = AddDays(T, n)
    \/ LocalTime(tz, next) = AddDays(LocalTime(tz, T), n)

\* a complete body naming a timestamp new Date() parses
NamesTimestamp(body) ==
    /\ formatText(body.name) # <<>>
    /\ formatText(body.species) # <<>>
    /\ parseInterval(body.wateringIntervalDays) # 0
    /\ body.lastWateredAt.ty = "string"
    /\ ~IsNaN(DateParse(body.lastWateredAt.text))

\* C6: creating a plant with a valid timestamp T and an interval N in 1..365
\* answers 201 with lastWateredAt = T and nextWateringDueAt = T advanced by N
\* days, and getPlant and listPlants then return that same record
C6_CreateRoundTrip ==
    [][\A body \in FullBodies :
            (res'.op = "POST" /\ NamesTimestamp(body) /\ Post(body)) =>
                /\ res'.status = 201
                /\ LET T == DateParse(body.lastWateredAt.text)
                       N == parseInterval(body.wateringIntervalDays)
                       created == res'.body[1]
                       listed == listPlants(db', "all", now', tz')
                   IN  /\ DateParse(created.lastWateredAt) = T
                       /\ created.nextWateringDueAt.k = "iso"
                       /\ AdvancedByDays(T, N, DateParse(created.nextWateringDueAt))
                       /\ getPlant(db', created.id, tz') = Ok(<<created>>)
                       /\ listed.ok
                       /\ \E i \in 1..Len(listed.v) : listed.v[i] = created]_vars


\* a plant whose lastWateredAt and nextWateringDueAt are both valid timestamps
ValidDates(plant) ==
    /\ plant.lastWateredAt.k = "iso"
    /\ plant.nextWateringDueAt.k = "iso"

\* ceil((nextDueAt - clock) / 1 day): the k with
\* clock + (k - 1) days < nextDueAt <= clock + k days
DayOffset(nextDueAt, clock) ==
    CHOOSE k \in (nextDueAt[1] - clock[1] - 1)..(nextDueAt[1] - clock[1] + 1) :
        Lt(AddDays(clock, k - 1), nextDueAt) /\ Leq(nextDueAt, AddDays(clock, k))

\* the badge the specification gives a day offset
Badge(dayOffset) ==
    [text |-> IF dayOffset < 0 THEN "Overdue " \o ToString(0 - dayOffset) \o "d"
              ELSE IF dayOffset = 0 THEN "Due today"
              ELSE "Due in " \o ToString(dayOffset) \o "d",
     tone |-> IF dayOffset <= 0 THEN "due"
              ELSE IF dayOffset <= 2 THEN "soon"
              ELSE "ok"]

\* lastWateredAt is 'ago' days before the clock, the interval is n, and
\* nextWateringDueAt is lastWateredAt + n * 24 hours
WateredDaysAgo(plant, clock, n, ago) ==
    /\ plant.wateringIntervalDays = n
    /\ DateParse(plant.lastWateredAt) = AddDays(clock, 0 - ago)
    /\ DateParse(plant.nextWateringDueAt) = AddDays(DateParse(plant.lastWateredAt), n)

\* C7: for a rendered plant with valid lastWateredAt and nextWateringDueAt the
\* badge is the one of dayOffset = ceil((nextDueAt - now) / 1 day): tone "due"
\* when dayOffset <= 0, "soon" when 1 <= dayOffset <= 2, "ok" above; text
\* "Overdue {-dayOffset}d", "Due today" or "Due in {dayOffset}d".  Interval 1
\* watered 2 days ago gives "Overdue 1d"/due, interval 10 watered 9 days ago
\* "Due in 1d"/soon, interval 10 watered 7 days ago "Due in 3d"/ok
C7_LabelFollowsDayOffset ==
    res.op = "render" =>
        \A i \in 1..Len(res.body) :
            LET plant == res.body[i].plant
                label == res.body[i].label
            IN  ValidDates(plant) =>
                    /\ label = Badge(DayOffset(DateParse(plant.nextWateringDueAt), now))
                    /\ label.tone \in {"due", "soon", "ok"}
                    /\ WateredDaysAgo(plant, now, 1, 2) =>
                            label = [text |-> "Overdue 1d", tone |-> "due"]
                    /\ WateredDaysAgo(plant, now, 10, 9) =>
                            label = [text |-> "Due in 1d", tone |-> "soon"]
                    /\ WateredDaysAgo(plant, now, 10, 7) =>
                            label = [text |-> "Due in 3d", tone |-> "ok"]
                    /\ WateredDaysAgo(plant, now, 7, 7) =>
                            label = [text |-> "Due today", tone |-> "due"]

\* rendered two days after Watered: a one-day plant watered at Watered shows
\* "Overdue 1d" and a seven-day plant watered at Watered shows "Due in 5d"
C7_Witness ==
    /\ res.op = "render"
    /\ now = AddDays(Watered, 2)
    /\ \E i, j \in 1..Len(res.body) :
            /\ WateredDaysAgo(res.body[i].plant, now, 1, 2)
            /\ res.body[i].label = [text |-> "Overdue 1d", tone |-> "due"]
            /\ WateredDaysAgo(res.body[j].plant, now, 7, 2)
            /\ res.body[j].label = [text |-> "Due in 5d", tone |-> "ok"]

\* the body carries a wateringIntervalDays field
CarriesInterval(body) == body.wateringIntervalDays.ty # "undefined"

\* the field is a JSON number that is an integer in 1..365
IsIntegerInRange(raw) == raw.ty = "number" /\ raw.whole /\ raw.n >= 1 /\ raw.n <= 365

\* Number(raw) is an integer in 1..365
ConvertsToIntegerInRange(raw) ==
    ToNumber(raw).whole /\ ToNumber(raw).n >= 1 /\ ToNumber(raw).n <= 365

\* every stored plant has an integer interval in 1..365
StoredIntervalsInRange(rows) ==
    \A row \in rows : row.watering_interval_days \in 1..365

\* what POST, PUT and PATCH answer to the body in the current state, and
\* the table and file they leave
Answers(body) ==
    {PostPlants(db, seq, file, body, now, tz)}
    \cup {PutPlant(db, seq, file, rawId, body, tz) : rawId \in IdInputs}
    \cup {PatchPlant(db, seq, file, rawId, body, tz) : rawId \in IdInputs}

\* the answer is a 400 and table and file are as they were
Rejected(h) == h.res.status = 400 /\ h.db = db /\ h.file = file

\* C8 as stated: every stored plant has an integer wateringIntervalDays in
\* 1..365, and a request carrying an interval that is not an integer in that
\* range is rejected with a 400 before it reaches storage
C8_NonIntegerRejected ==
    /\ StoredIntervalsInRange(db)
    /\ \A body \in FieldBodies \cup FieldPatches :
            (CarriesInterval(body) /\ ~IsIntegerInRange(body.wateringIntervalDays)) =>
                \A h \in Answers(body) : Rejected(h)

\* C8 amended: every stored plant has an integer wateringIntervalDays in
\* 1..365; a request carrying an interval that Number() does not convert to an
\* integer in 1..365 is rejected with a 400 before it reaches storage; a
\* created plant stores the converted number
C8_StoredIntervalInRange ==
    /\ StoredIntervalsInRange(db)
    /\ \A body \in FieldBodies \cup FieldPatches :
            /\ (CarriesInterval(body)
                    /\ ~ConvertsToIntegerInRange(body.wateringIntervalDays)) =>
                        \A h \in Answers(body) : Rejected(h)
            /\ LET h == PostPlants(db, seq, file, body, now, tz)
               IN  h.res.status = 201 =>
                        /\ h.res.body[1].wateringIntervalDays
                                = ToNumber(body.wateringIntervalDays).n
                        /\ StoredIntervalsInRange(h.db)

\* a PATCH carrying an interval has just been rejected while the table holds
\* plants with the intervals 1 and 365
C8_Witness ==
    /\ res.op = "PATCH"
    /\ res.status = 400
    /\ res.error = "wateringIntervalDays must be between 1 and 365"
    /\ \E r1, r2 \in db :
            r1.watering_interval_days = 1 /\ r2.watering_interval_days = 365

\* the id and created_at of every stored row
Identities(rows) == {<<row.id, row.created_at>> : row \in rows}

\* C9: no two stored records share an id, and a PUT or PATCH leaves the id
\* and createdAt of every stored record as they were; the record an update
\* answers with has the id of the request and the createdAt it had
C9_IdentityStable ==
    [][/\ \A r1, r2 \in db' : r1.id = r2.id => r1 = r2
       /\ res'.op \in {"PUT", "PATCH"} =>
            /\ Identities(db') = Identities(db)
            /\ res'.status = 200 =>
                    <<res'.body[1].id, res'.body[1].createdAt>> \in Identities(db)]_vars

\* a PUT has changed the lastWateredAt of one of two stored plants, after
\* the clock moved on from the time they were created
C9_Witness ==
    /\ res.op = "PUT"
    /\ res.status = 200
    /\ Cardinality(db) = 2
    /\ res.body[1].lastWateredAt = Iso(Watered)
    /\ \E row \in db : row.last_watered_at = Null
    /\ Lt(res.body[1].createdAt, now)

\* the update payloads the storage module is called with
UpdateInputs ==
    {[name |-> Absent, species |-> Absent, wateringIntervalDays |-> v,
      notes |-> Absent, lastWateredAt |-> text] :
        v \in {Absent, Num(7)}, text \in {Undefined, Null, Iso(Watered)}}

\* what PUT, PATCH and DELETE answer for the id in the current state
AnswersFor(rawId) ==
    {PutPlant(db, seq, file, rawId, body, tz) : body \in PutBodies}
    \cup {PatchPlant(db, seq, file, rawId, body, tz) : body \in PartialBodies}
    \cup {DeletePlant(db, seq, file, rawId)}

\* C10: on an id with no record getPlant and updatePlant resolve to null and
\* deletePlant to false, none of them throws or changes the table or the
\* file; DELETE answers 404, PUT and PATCH answer 404 unless the body is
\* rejected with 400; whatever the answer, table, file and counter are as
\* they were
C10_NotFoundChangesNothing ==
    \A rawId \in IdInputs :
        LET id == parseId(rawId)
        IN  (id # 0 /\ id \notin {row.id : row \in db}) =>
                /\ getPlant(db, id, tz) = Ok(<<>>)
                /\ deletePlant(db, seq, file, id) = Effect(db, seq, file, Ok(FALSE))
                /\ \A updates \in UpdateInputs :
                        updatePlant(db, seq, file, id, updates, tz)
                            = Effect(db, seq, file, Ok(<<>>))
                /\ \A h \in AnswersFor(rawId) :
                        /\ h.db = db /\ h.file = file /\ h.seq = seq
                        /\ h.res.status \in {400, 404}
                        /\ h.res.status = 404 => h.res.error = "Plant not found"
                        /\ h.res.op = "DELETE" => h.res.status = 404
                /\ PutPlant(db, seq, file, rawId, BaseBody, tz).res.status = 404
                /\ PatchPlant(db, seq, file, rawId,
                        [EmptyBody EXCEPT !.lastWateredAt = JsonNull], tz).res.status
                            = 404

\* a DELETE of an id that was deleted before has been answered 404 while
\* another plant is stored
C10_Witness ==
    /\ res.op = "DELETE"
    /\ res.status = 404
    /\ seq = MaxId
    /\ Cardinality(db) = 1

\* no request is in flight: the database is loaded and every request that
\* arrived has been answered
Quiet ==
    /\ tasks.loaded = "resolved"
    /\ \A r \in Reqs : tasks.req[r].pc \in {"idle", "done"}

\* the orders in which the requests can be taken one after the other
Orders == {order \in [Reqs -> Reqs] : \A r1, r2 \in Reqs : order[r1] = order[r2] => r1 = r2}

\* the table after updatePlant has been applied for the first n requests of
\* the order, one call after the other, to the table the server started with
RECURSIVE OneAfterTheOther(_, _)
OneAfterTheOther(order, n) ==
    IF n = 0 THEN StartRows
    ELSE LET q == tasks.req[order[n]]
         IN  updatePlant(OneAfterTheOther(order, n - 1), seq, file, q.id, q.updates, tz).db

\* C11: when update requests for the same plant were in flight together and
\* all have been answered, the stored table is the one that applying the
\* updates one after the other, in some order, gives
C11_UpdatesOneAfterTheOther ==
    (Quiet /\ \A r \in Reqs : tasks.req[r].op = "PATCH" /\ tasks.req[r].id = 1) =>
        \E order \in Orders : db = OneAfterTheOther(order, MaxReq)

\* C13: once every request has been answered, the database file holds the
\* records the in-memory database holds
C13_FileKeepsUp == Quiet => file = db

\* the filters listPlants names
Filters == {"all", "due", "upcoming"}

\* every plant of the list was created later than those after it, or at the
\* same second with a larger id
NewestFirst(plants) ==
    \A i, j \in 1..Len(plants) :
        i < j =>
            \/ Lt(plants[j].createdAt, plants[i].createdAt)
            \/ /\ plants[i].createdAt = plants[j].createdAt
               /\ plants[i].id > plants[j].id

\* where the plant with the id stands in the list
Position(plants, id) == CHOOSE i \in 1..Len(plants) : plants[i].id = id

\* plants that both lists hold stand in the same order in both
SameOrder(before, after) ==
    \A a, b \in Ids(before) \cap Ids(after) :
        Position(before, a) < Position(before, b)
            <=> Position(after, a) < Position(after, b)

\* the lastWateredAt updates updatePlant is called with
WateredUpdates == {[NoUpdates EXCEPT !.lastWateredAt = text] : text \in StoreTexts}

\* C12: after every create, update and delete, listPlants returns each
\* filter's records newest-created first, records of equal createdAt by
\* descending id; an update leaves the 'all' list in the order it had and
\* the records each filter lists before and after in the same relative order
C12_NewestFirst ==
    /\ res.op = "listPlants" => NewestFirst(res.body)
    /\ \A filter \in Filters :
            \E before \in {listPlants(db, filter, now, tz)} :
                /\ before.ok
                /\ NewestFirst(before.v)
                /\ Ids(before.v) \subseteq {row.id : row \in db}
                /\ \A row \in db, updates \in WateredUpdates :
                        \E after \in {listPlants(
                                        updatePlant(db, seq, file, row.id, updates, tz).db,
                                        filter, now, tz)} :
                            /\ after.ok
                            /\ SameOrder(before.v, after.v)
                            /\ filter = "all" =>
                                    [i \in 1..Len(before.v) |-> before.v[i].id]
                                        = [i \in 1..Len(after.v) |-> after.v[i].id]

\* updatePlant has just set the lastWateredAt of the older of two plants
\* created at different seconds; the newer one is listed first
C12_Witness ==
    /\ res.op = "updatePlant"
    /\ Len(res.body) = 1
    /\ res.body[1].lastWateredAt = Iso(Watered)
    /\ Len(ListAll.v) = 2
    /\ ListAll.v[2].id = res.body[1].id
    /\ Lt(ListAll.v[2].createdAt, ListAll.v[1].createdAt)
    /\ Len(ListDue.v) = 2

\* the body does not carry the field
Unnamed(field) == field.ty = "undefined"

\* the body carries lastWateredAt as null or as the empty string
NamesNoWatering(body) ==
    \/ body.lastWateredAt.ty = "null"
    \/ body.lastWateredAt.ty = "string" /\ body.lastWateredAt.text = EmptyText

\* the answer changed the row 'old' into 'new' and nothing else, keeping
\* every column the body does not name
ChangesOnlyNamed(h, body, old, new) ==
    /\ new.id = old.id
    /\ new.created_at = old.created_at
    /\ h.db \ {new} = db \ {old}
    /\ h.file = h.db
    /\ h.res.body = <<mapRow(new, tz)>>
    /\ Unnamed(body.name) => new.name = old.name
    /\ Unnamed(body.species) => new.species = old.species
    /\ Unnamed(body.wateringIntervalDays) =>
            new.watering_interval_days = old.watering_interval_days
    /\ Unnamed(body.notes) => new.notes = old.notes
    /\ Unnamed(body.lastWateredAt) => new.last_watered_at = old.last_watered_at
    /\ new.last_watered_at = Null =>
            \/ NamesNoWatering(body)
            \/ Unnamed(body.lastWateredAt) /\ old.last_watered_at = Null

\* C14: a PATCH answered 200 leaves every field its body does not carry at
\* its previous value and every other record as it was, and stores null as
\* lastWateredAt only when the body carries lastWateredAt as null or ""; a
\* POST, PUT or PATCH answered 400 leaves table and file as they were
C14_PatchChangesOnlyNamed ==
    /\ \A rawId \in IdInputs, body \in PatchBodies :
            \E h \in {PatchPlant(db, seq, file, rawId, body, tz)} :
                /\ h.res.status = 400 => h.db = db /\ h.file = file
                /\ h.res.status = 200 =>
                        \E old \in db, new \in h.db :
                            /\ old.id = parseId(rawId)
                            /\ ChangesOnlyNamed(h, body, old, new)
    /\ \A body \in FullBodies \cup PutBodies :
            \A h \in {PostPlants(db, seq, file, body, now, tz)}
                        \cup {PutPlant(db, seq, file, rawId, body, tz) : rawId \in IdInputs} :
                h.res.status = 400 => h.db = db /\ h.file = file

\* PATCH {"lastWateredAt": ""} has just been answered 200 for a plant whose
\* name, notes and interval earlier PATCH requests had changed one by one
C14_Witness ==
    /\ res.op = "PATCH"
    /\ res.status = 200
    /\ res.body[1].id = 1
    /\ res.body[1].name = <<"G">>
    /\ res.body[1].species = <<"S">>
    /\ res.body[1].notes = <<"n">>
    /\ res.body[1].wateringIntervalDays = 1
    /\ res.body[1].lastWateredAt = Null
    /\ StoredRow(2, 7, Null) \in db

\* the plants the client displays
Displayed == [i \in 1..Len(res.body) |-> res.body[i].plant]

\* the displayed plants whose badge has one of the tones
WithTone(tones) == {i \in 1..Len(res.body) : res.body[i].label.tone \in tones}

\* C15: for the plants the client displays and one 'now', the badge has tone
\* "due" exactly when isDueNow is true, so "soon" and "ok" occur only on
\* plants counted as upcoming; dueNowCount is the number of "due" badges,
\* upcomingCount the number of "soon" and "ok" badges, and the two counts
\* add up to the number of displayed plants
C15_BadgeAgreesWithCounts ==
    res.op = "render" =>
        /\ \A i \in 1..Len(res.body) :
                /\ res.body[i].label.tone = "due" <=> isDueNow(res.body[i].plant, now)
                /\ res.body[i].due = isDueNow(res.body[i].plant, now)
        /\ dueNowCount(Displayed, now) = Cardinality(WithTone({"due"}))
        /\ upcomingCount(Displayed, now) = Cardinality(WithTone({"soon", "ok"}))
        /\ dueNowCount(Displayed, now) + upcomingCount(Displayed, now) = Len(res.body)

\* two plants are displayed 300 ms before the seven-day plant falls due: it
\* still counts as upcoming with the badge "Due in 1d", the other is due
C15_Witness ==
    /\ res.op = "render"
    /\ now = AddMs(AddDays(Watered, 7), 0 - 300)
    /\ Len(res.body) = 2
    /\ dueNowCount(Displayed, now) = 1
    /\ upcomingCount(Displayed, now) = 1
    /\ \E i \in 1..2 :
            /\ res.body[i].label = [text |-> "Due in 1d", tone |-> "soon"]
            /\ res.body[i].plant.nextWateringDueAt = Iso(AddDays(Watered, 7))

====
